---- MODULE Spec2Model ----
(***************************************************************************)
(* caddy-sqlite-fs: a read-only fs.FS over the rows of a sqlite table.     *)
(* The model follows src/module.go: the SQLiteFS instance with its held    *)
(* *sql.DB (s.db), the handles sql.Open has produced, the table `files`,   *)
(* the wall clock the query reads, and the sqliteFile objects Open         *)
(* returns.  procs holds the calls in progress where calls are taken step  *)
(* by step, and hist the history of the connection where it is recorded.   *)
(*                                                                         *)
(* Optional values (a nullable column, a nil pointer) are sequences of     *)
(* length zero or one: <<>> is NULL / nil, <<v>> is a present value.       *)
(***************************************************************************)
EXTENDS Integers, Sequences, FiniteSets, TLC

VARIABLES store, now, db, conns, files, last, procs, hist

vars == <<store, now, db, conns, files, last, procs, hist>>

----------------------------------------------------------------------------
(* Bounds of the model.                                                    *)

\* the clock runs over 0..MaxTime; expired_at is NULL or in 1..MaxTime
MaxTime == 1
\* a stored content is empty or the MaxLen bytes 1, 2, ..., MaxLen
MaxLen == 2
\* at most MaxConns handles are ever produced by sql.Open
MaxConns == 2
\* at most MaxFiles sqliteFile objects are retained by callers
MaxFiles == 2
\* Read is called with buffers of length 0..MaxBuf
MaxBuf == 2
\* at most MaxProcs calls of the instance are in progress at a time
MaxProcs == 2

----------------------------------------------------------------------------
(* Values.                                                                 *)

None == <<>>
Some(v) == <<v>>

Min(a, b) == IF a < b THEN a ELSE b

Names == {"a", "b"}

\* the byte string 1,2,...,k: every byte differs, so order and repetition show
Bytes(k) == [i \in 1..k |-> i]
Contents == {Bytes(0), Bytes(MaxLen)}

\* the largest int32: the mode column is scanned into an *int32
MaxInt32 == 2147483647

\* a column holds an sqlite value: an integer, or (sqlite does not enforce the
\* declared type) a text that is no number
IntCell(v) == [int |-> v]
TextCell(t) == [text |-> t]

\* mode column: 0644, or a text
ModeCells == {IntCell(420), TextCell("rw-r--r--")}
ModifiedCells == {IntCell(5)}

Opt(S) == {None} \cup {Some(v) : v \in S}

Rows == [content : Contents,
         modified : Opt(ModifiedCells),
         mode : Opt(ModeCells),
         expired_at : Opt(1..MaxTime)]

\* outcomes of sql.Open("sqlite3", dsn): an error; a handle whose queries work;
\* a handle whose queries fail (sql.Open connects lazily, a missing or
\* unreadable file only shows at query time)
SqlOpenResults == {"error", "healthy", "unusable"}

\* what (*sql.DB).Close returns
CloseResults == {"nil", "error"}

----------------------------------------------------------------------------
(* The table `files`.  A row is keyed by its name: store[n] is None when   *)
(* no row is named n, and Some(r) when row r is.                           *)

NoDB == None

\* the filter without its second disjunct: only rows that never expire
Visible_NullOnly(r, t) == r.expired_at = None

\* the filter with >= for >: a row is still served at its expired_at
Visible_Inclusive(r, t) == r.expired_at = None \/ r.expired_at[1] >= t

\* expired_at IS NULL OR expired_at > strftime('%s','now')
Visible(r, t) == r.expired_at = None \/ r.expired_at[1] > t

\* convertAssign of a column into *int64 / *int32: NULL gives a nil pointer, an
\* integer is stored, a text that is no number is a conversion error
IsInt(c) == "int" \in DOMAIN c

ScanOK(r) ==
    /\ r.modified = None \/ IsInt(r.modified[1])
    /\ r.mode = None \/ IsInt(r.mode[1])

\* s.db.QueryRow(...).Scan(&content, &modified, &mode) on handle h at time t:
\* "error" is any failure other than sql.ErrNoRows
QueryRow(cs, h, tbl, name, t) ==
    IF cs[h] # "open"
        THEN [err |-> "error", row |-> None]
    ELSE IF tbl[name] = None \/ ~Visible(tbl[name][1], t)
        THEN [err |-> "ErrNoRows", row |-> None]
    ELSE IF ~ScanOK(tbl[name][1])
        THEN [err |-> "error", row |-> None]
    ELSE [err |-> "nil", row |-> tbl[name]]

\* time.Time{}: the zero instant (January 1, year 1), which is no Unix time
\* of the model
ZeroTime == [zero |-> TRUE]

\* time.Unix(sec, 0): the instant sec seconds after the Unix epoch
TimeUnix(sec) == [zero |-> FALSE, unix |-> sec]

\* fs.FileMode(m) for an int32 m: the uint32 with the same bits, as its top
\* bit (fs.ModeDir) and its low 31 bits
FileMode(m) ==
    [dir |-> m < 0, low |-> IF m < 0 THEN (m + MaxInt32) + 1 ELSE m]

\* the zero sqliteFileInfo
ZeroInfo == [name |-> "", size |-> 0, modTime |-> ZeroTime, mode |-> FileMode(0)]

\* the mode set inside the `if modified != nil` block
NewFile_ModeNeedsModified(r) ==
    [reader |-> Some([buf |-> r.content, off |-> 0]),
     info |-> [name |-> "",
               size |-> Len(r.content),
               modTime |-> IF r.modified # None THEN TimeUnix(r.modified[1].int)
                                                ELSE ZeroTime,
               mode |-> IF r.modified # None /\ r.mode # None
                            THEN FileMode(r.mode[1].int)
                            ELSE FileMode(0)]]

\* the sqliteFile built from the scanned columns: a bytes.Buffer over the
\* content (buf, read offset off) and the sqliteFileInfo; name is not set
NewFile(r) ==
    [reader |-> Some([buf |-> r.content, off |-> 0]),
     info |-> [ZeroInfo EXCEPT
                  !.size = Len(r.content),
                  !.modTime = IF r.modified # None THEN TimeUnix(r.modified[1].int)
                                                   ELSE ZeroTime,
                  !.mode = IF r.mode # None THEN FileMode(r.mode[1].int)
                                            ELSE FileMode(0)]]

----------------------------------------------------------------------------
(* The connection.  conns[h] is the state of the h-th handle sql.Open      *)
(* returned: "open" (queries work), "bad" (queries fail), "closed".  db is *)
(* the s.db field of the instance the host holds: NoDB or Some(h).         *)

\* OpenDB on a SQLiteFS value whose db field is d, sql.Open answering res.
\* On an error sql.Open returns a nil *sql.DB, and db.Close() on it panics.
OpenDB(d, cs, res) ==
    IF d # NoDB
        THEN [db |-> d, conns |-> cs, panic |-> FALSE, opened |-> FALSE]
    ELSE IF res = "error"
        THEN [db |-> d, conns |-> cs, panic |-> TRUE, opened |-> FALSE]
    ELSE [db |-> Some(Len(cs) + 1),
          conns |-> Append(cs, IF res = "healthy" THEN "open" ELSE "bad"),
          panic |-> FALSE, opened |-> TRUE]

\* path.Base on the names of the model, which hold no slash: the empty path
\* gives "."
PathBase(p) == IF p = "" THEN "." ELSE p

\* the record of the last call and what it returned
Event(op) ==
    [op |-> op, name |-> "", outcome |-> "nil", file |-> None,
     used |-> None, opened |-> FALSE, qerr |-> "none", before |-> NoDB,
     idx |-> 0, size |-> 0, n |-> 0, pre |-> None, info |-> None,
     after |-> FALSE]

\* a panic ends the process
Running == last.outcome # "panic"

\* the callers of the instance, and a call that is not in progress
Procs == 1..MaxProcs
Idle == [pc |-> "idle", name |-> "", copy |-> NoDB, after |-> FALSE]

\* The history of the connection, kept when a specification asks for it
\* (hist is None otherwise): resets counts the invalidations (`s.db = nil`
\* after a query error) and the Cleanups so far, as far as MaxConns; failed
\* says that an Open has returned after a query error since the held handle
\* last went bad.
NoHistory == None
NewHistory == Some([resets |-> 0, failed |-> FALSE])

\* the history after a call of Open that returned ev
AfterCall(h, ev) ==
    IF h = None THEN None
    ELSE Some([resets |-> IF ev.qerr = "error"
                              THEN Min(h[1].resets + 1, MaxConns)
                              ELSE h[1].resets,
               failed |-> h[1].failed \/ ev.qerr = "error"])

\* the history after a Cleanup
AfterCleanup(h) ==
    IF h = None THEN None
    ELSE Some([h[1] EXCEPT !.resets = Min(h[1].resets + 1, MaxConns)])

\* the history after the held handle went bad
AfterFailure(h) ==
    IF h = None THEN None ELSE Some([h[1] EXCEPT !.failed = FALSE])

Init ==
    /\ store = [n \in Names |-> None]
    /\ now = 0
    /\ db = NoDB
    /\ conns = <<>>
    /\ files = <<>>
    /\ last = Event("new")
    /\ procs = [p \in Procs |-> Idle]
    /\ hist = NoHistory

\* func (s *SQLiteFS) Provision: pointer receiver, the instance keeps the handle
Provision(res) ==
    /\ Running
    /\ db = NoDB => Len(conns) < MaxConns
    /\ LET o == OpenDB(db, conns, res) IN
       /\ db' = o.db
       /\ conns' = o.conns
       /\ last' = [Event("Provision") EXCEPT
                       !.outcome = IF o.panic THEN "panic" ELSE "nil",
                       !.opened = o.opened, !.before = db]
    /\ UNCHANGED <<store, now, files, procs, hist>>

\* the db field of Open's receiver when it returns.  Open has a value
\* receiver: OpenDB and `s.db = nil` act on the copy, which is dropped.
AfterOpen(held, copy) == held

\* func (s SQLiteFS) Open(name): the outcome and the effect on the connection
OpenCall(name, res) ==
    LET o == OpenDB(db, conns, res) IN
    IF o.panic
        THEN [db |-> db, conns |-> conns,
              ev |-> [Event("Open") EXCEPT !.name = name, !.outcome = "panic",
                                           !.before = db]]
    ELSE IF o.db = NoDB
        THEN [db |-> AfterOpen(db, o.db), conns |-> o.conns,
              ev |-> [Event("Open") EXCEPT !.name = name, !.outcome = "ErrNotExist",
                                           !.before = db]]
    ELSE LET q == QueryRow(o.conns, o.db[1], store, name, now)
             copy == IF q.err = "error" THEN NoDB ELSE o.db
         IN [db |-> AfterOpen(db, copy), conns |-> o.conns,
             ev |-> [Event("Open") EXCEPT
                         !.name = name,
                         !.outcome = IF q.err = "nil" THEN "file" ELSE "ErrNotExist",
                         !.file = IF q.err = "nil" THEN Some(NewFile(q.row[1])) ELSE None,
                         !.used = o.db, !.opened = o.opened,
                         !.qerr = q.err, !.before = db]]

\* Open whose caller drops the returned file
Open(name, res) ==
    /\ Running
    /\ db = NoDB => Len(conns) < MaxConns
    /\ LET c == OpenCall(name, res) IN
       /\ db' = c.db
       /\ conns' = c.conns
       /\ last' = c.ev
       /\ hist' = AfterCall(hist, c.ev)
    /\ UNCHANGED <<store, now, files, procs>>

\* func (s SQLiteFS) Cleanup: closes the held handle and returns what
\* (*sql.DB).Close returned, cerr; with no handle it returns nil.  The value
\* receiver (and the absence of any assignment) leaves the instance's field
\* as it was
Cleanup(cerr) ==
    /\ Running
    /\ conns' = IF db # NoDB THEN [conns EXCEPT ![db[1]] = "closed"] ELSE conns
    /\ last' = [Event("Cleanup") EXCEPT
                    !.outcome = IF db # NoDB THEN cerr ELSE "nil",
                    !.before = db]
    /\ hist' = AfterCleanup(hist)
    /\ UNCHANGED <<store, now, db, files, procs>>

----------------------------------------------------------------------------
(* The files callers hold.  files[i].obj is the i-th retained sqliteFile;  *)
(* beside it the caller's view: path, the name it was opened with, src,    *)
(* the content of the row it was opened on, info0, what Stat would have    *)
(* returned as Open returned, and got, the bytes its Reads have delivered  *)
(* so far.                                                                 *)

\* Open whose caller keeps the returned file
OpenHold(name, res) ==
    /\ Running
    /\ db = NoDB => Len(conns) < MaxConns
    /\ Len(files) < MaxFiles
    /\ LET c == OpenCall(name, res) IN
       /\ db' = c.db
       /\ conns' = c.conns
       /\ last' = c.ev
       /\ files' = IF c.ev.outcome = "file"
                       THEN Append(files, [obj |-> c.ev.file[1],
                                           path |-> name,
                                           src |-> store[name][1].content,
                                           info0 |-> c.ev.file[1].info,
                                           got |-> <<>>])
                       ELSE files
       /\ hist' = AfterCall(hist, c.ev)
    /\ UNCHANGED <<store, now, procs>>

\* a Read that copies the bytes and leaves the offset where it was
BufferRead_NoAdvance(b, k) ==
    IF Len(b.buf) <= b.off
        THEN [buf |-> <<>>, off |-> 0, n |-> 0, data |-> <<>>,
              err |-> IF k = 0 THEN "nil" ELSE "EOF"]
    ELSE LET n == Min(k, Len(b.buf) - b.off) IN
         [buf |-> b.buf, off |-> b.off, n |-> n,
          data |-> SubSeq(b.buf, b.off + 1, b.off + n), err |-> "nil"]

\* (*bytes.Buffer).Read(p) with len(p) = k on the buffer b: an empty buffer is
\* reset and gives 0 bytes, with io.EOF unless len(p) is 0; otherwise the
\* unread bytes are copied into p as far as it goes and the offset advances
BufferRead(b, k) ==
    IF Len(b.buf) <= b.off
        THEN [buf |-> <<>>, off |-> 0, n |-> 0, data |-> <<>>,
              err |-> IF k = 0 THEN "nil" ELSE "EOF"]
    ELSE LET n == Min(k, Len(b.buf) - b.off) IN
         [buf |-> b.buf, off |-> b.off + n, n |-> n,
          data |-> SubSeq(b.buf, b.off + 1, b.off + n), err |-> "nil"]

\* a Read on files that share one buffer per path: the cursor of every file
\* opened on the same path moves
Read_SharedBuffer(i, k) ==
    /\ Running
    /\ i \in 1..Len(files)
    /\ LET f == files[i].obj IN
       IF f.reader = None
           THEN /\ files' = files
                /\ last' = [Event("Read") EXCEPT !.idx = i, !.size = k,
                                !.outcome = "panic", !.pre = Some(f)]
       ELSE LET r == BufferRead(f.reader[1], k) IN
            /\ files' = [j \in 1..Len(files) |->
                            IF j = i
                                THEN [files[j] EXCEPT
                                         !.obj.reader = Some([buf |-> r.buf, off |-> r.off]),
                                         !.got = files[i].got \o r.data]
                            ELSE IF files[j].path = files[i].path
                                      /\ files[j].obj.reader # None
                                THEN [files[j] EXCEPT
                                         !.obj.reader = Some([buf |-> r.buf, off |-> r.off])]
                            ELSE files[j]]
            /\ last' = [Event("Read") EXCEPT !.idx = i, !.size = k, !.n = r.n,
                            !.outcome = r.err, !.pre = Some(f)]
    /\ UNCHANGED <<store, now, db, conns, procs, hist>>

\* func (f sqliteFile) Read(p): f.reader.Read(p); a nil reader (after Close)
\* is dereferenced and panics
Read(i, k) ==
    /\ Running
    /\ i \in 1..Len(files)
    /\ LET f == files[i].obj IN
       IF f.reader = None
           THEN /\ files' = files
                /\ last' = [Event("Read") EXCEPT !.idx = i, !.size = k,
                                !.outcome = "panic", !.pre = Some(f)]
       ELSE LET r == BufferRead(f.reader[1], k) IN
            /\ files' = [files EXCEPT
                            ![i].obj.reader = Some([buf |-> r.buf, off |-> r.off]),
                            ![i].got = files[i].got \o r.data]
            /\ last' = [Event("Read") EXCEPT !.idx = i, !.size = k, !.n = r.n,
                            !.outcome = r.err, !.pre = Some(f)]
    /\ UNCHANGED <<store, now, db, conns, procs, hist>>

\* a Stat whose size is what is left to read, as (*bytes.Buffer).Len is
Stat_Remaining(i) ==
    /\ Running
    /\ i \in 1..Len(files)
    /\ LET f == files[i].obj
           left == IF f.reader = None THEN 0
                   ELSE Len(f.reader[1].buf) - f.reader[1].off IN
       last' = [Event("Stat") EXCEPT !.idx = i,
                    !.info = Some([f.info EXCEPT !.size = left]),
                    !.pre = Some(f)]
    /\ UNCHANGED <<store, now, db, conns, files, procs, hist>>

\* func (f sqliteFile) Stat(): f.info, nil
Stat(i) ==
    /\ Running
    /\ i \in 1..Len(files)
    /\ last' = [Event("Stat") EXCEPT !.idx = i, !.info = Some(files[i].obj.info),
                    !.pre = Some(files[i].obj)]
    /\ UNCHANGED <<store, now, db, conns, files, procs, hist>>

\* a Close that reports a file already closed, as os.File does
CloseFile_ErrClosed(f) ==
    IF f.reader = None
        THEN [obj |-> f, outcome |-> "ErrClosed"]
        ELSE [obj |-> [reader |-> None, info |-> ZeroInfo], outcome |-> "nil"]

\* func (f *sqliteFile) Close(): the file after it, and the error returned
CloseFile(f) == [obj |-> [reader |-> None, info |-> ZeroInfo], outcome |-> "nil"]

Close(i) ==
    /\ Running
    /\ i \in 1..Len(files)
    /\ LET c == CloseFile(files[i].obj) IN
       /\ files' = [files EXCEPT ![i].obj = c.obj]
       /\ last' = [Event("Close") EXCEPT !.idx = i, !.outcome = c.outcome,
                       !.pre = Some(files[i].obj)]
    /\ UNCHANGED <<store, now, db, conns, procs, hist>>

----------------------------------------------------------------------------
(* The environment: the external writer of the table, the clock, and the   *)
(* storage under the held handle.                                          *)

WriteRow(name, r) ==
    /\ Running
    /\ store' = [store EXCEPT ![name] = Some(r)]
    /\ last' = Event("env")
    /\ UNCHANGED <<now, db, conns, files, procs, hist>>

DeleteRow(name) ==
    /\ Running
    /\ store[name] # None
    /\ store' = [store EXCEPT ![name] = None]
    /\ last' = Event("env")
    /\ UNCHANGED <<now, db, conns, files, procs, hist>>

Tick ==
    /\ Running
    /\ now < MaxTime
    /\ now' = now + 1
    /\ last' = Event("env")
    /\ UNCHANGED <<store, db, conns, files, procs, hist>>

\* the held handle stops answering queries (file replaced, disk error, ...)
HandleFails ==
    /\ Running
    /\ db # NoDB /\ conns[db[1]] = "open"
    /\ conns' = [conns EXCEPT ![db[1]] = "bad"]
    /\ last' = Event("env")
    /\ hist' = AfterFailure(hist)
    /\ procs' = [p \in Procs |-> [procs[p] EXCEPT !.after = FALSE]]
    /\ UNCHANGED <<store, now, db, files>>

\* a transient failure passes: database/sql reconnects inside the handle
HandleRecovers ==
    /\ Running
    /\ db # NoDB /\ conns[db[1]] = "bad"
    /\ conns' = [conns EXCEPT ![db[1]] = "open"]
    /\ last' = Event("env")
    /\ UNCHANGED <<store, now, db, files, procs, hist>>

Next ==
    \/ \E res \in SqlOpenResults : Provision(res)
    \/ \E name \in Names, res \in SqlOpenResults : Open(name, res)
    \/ \E cerr \in CloseResults : Cleanup(cerr)
    \/ \E name \in Names, r \in Rows : WriteRow(name, r)
    \/ \E name \in Names : DeleteRow(name)
    \/ Tick
    \/ HandleFails
    \/ HandleRecovers

Spec == Init /\ [][Next]_vars

\* the rows the file operations are run on: rows that do not expire, with
\* either content, and with their metadata columns all present or all NULL
FileRows ==
    {r \in Rows : /\ r.expired_at = None
                  /\ ScanOK(r)
                  /\ (r.modified = None) = (r.mode = None)}

\* The files of a provisioned instance over a table that holds still, opened,
\* read, inspected and closed by callers that keep them.
InitFile ==
    /\ store \in [Names -> Opt(FileRows)]
    /\ now = 0
    /\ db = Some(1)
    /\ conns = <<"open">>
    /\ files = <<>>
    /\ last = Event("new")
    /\ procs = [p \in Procs |-> Idle]
    /\ hist = NoHistory

NextFile ==
    \/ \E name \in Names, res \in SqlOpenResults : OpenHold(name, res)
    \/ \E i \in 1..MaxFiles, k \in 0..MaxBuf : Read(i, k)
    \/ \E i \in 1..MaxFiles : Stat(i)
    \/ \E i \in 1..MaxFiles : Close(i)

SpecFile == InitFile /\ [][NextFile]_vars

----------------------------------------------------------------------------
(* The connection alone: Provision, Open and Cleanup called one after the   *)
(* other over a table that holds still, with the history of the connection *)
(* recorded.                                                               *)

\* the table of the runs about the connection: "a" is there for good
ConnStore ==
    [n \in Names |->
        IF n = "a"
            THEN Some([content |-> Bytes(MaxLen), modified |-> None,
                       mode |-> None, expired_at |-> None])
            ELSE None]

InitConn ==
    /\ store = ConnStore
    /\ now = 0
    /\ db = NoDB
    /\ conns = <<>>
    /\ files = <<>>
    /\ last = Event("new")
    /\ procs = [p \in Procs |-> Idle]
    /\ hist = NewHistory

NextConn ==
    \/ \E res \in SqlOpenResults : Provision(res)
    \/ \E name \in Names, res \in SqlOpenResults : Open(name, res)
    \/ \E cerr \in CloseResults : Cleanup(cerr)
    \/ HandleFails
    \/ HandleRecovers

SpecConn == InitConn /\ [][NextConn]_vars

----------------------------------------------------------------------------
(* Calls in progress at the same time.  Open is called from one goroutine  *)
(* per request; a call is cut where it reads or writes what the others can *)
(* see: the copy of the receiver when the call starts, sql.Open, the query *)
(* (the table and the clock as they are then), and in Provision the test,  *)
(* the open and the assignment of s.db.  procs[p] is the position of the   *)
(* call of p and its locals; a step that returns resets it and records the *)
(* call in last, any other step clears last.                               *)

\* Open(name) starts: the value receiver copies the instance, s.db with it
OpenBegin(p, name) ==
    /\ Running
    /\ procs[p].pc = "idle"
    /\ procs' = [procs EXCEPT ![p] =
                     [pc |-> "OpenDB", name |-> name, copy |-> db,
                      after |-> hist # None /\ hist[1].failed]]
    /\ last' = Event("step")
    /\ UNCHANGED <<store, now, db, conns, files, hist>>

\* s.OpenDB() on the copy
OpenEnsure(p, res) ==
    /\ Running
    /\ procs[p].pc = "OpenDB"
    /\ procs[p].copy = NoDB => Len(conns) < MaxConns
    /\ LET o == OpenDB(procs[p].copy, conns, res)
           ev == [Event("Open") EXCEPT !.name = procs[p].name,
                                       !.after = procs[p].after] IN
       /\ conns' = o.conns
       /\ IF o.panic
             THEN /\ last' = [ev EXCEPT !.outcome = "panic"]
                  /\ procs' = [procs EXCEPT ![p] = Idle]
          ELSE IF o.db = NoDB
             THEN /\ last' = [ev EXCEPT !.outcome = "ErrNotExist"]
                  /\ procs' = [procs EXCEPT ![p] = Idle]
          ELSE /\ last' = Event("step")
               /\ procs' = [procs EXCEPT ![p].pc = "QueryRow", ![p].copy = o.db]
    /\ UNCHANGED <<store, now, db, files, hist>>

\* a query that reads the handle from the instance and not from the receiver
QueryHandle_Shared(copy, held) == held

\* the handle `s.db.QueryRow` runs on: the db field of the receiver, which is
\* the copy Open works on
QueryHandle(copy, held) == copy

\* the query, the Scan and the return of Open; QueryRow on a nil *sql.DB
\* panics
OpenQuery(p) ==
    /\ Running
    /\ procs[p].pc = "QueryRow"
    /\ LET h == QueryHandle(procs[p].copy, db)
           ev == [Event("Open") EXCEPT !.name = procs[p].name,
                                       !.after = procs[p].after] IN
       IF h = NoDB
          THEN /\ last' = [ev EXCEPT !.outcome = "panic"]
               /\ UNCHANGED <<db, hist>>
       ELSE LET q == QueryRow(conns, h[1], store, procs[p].name, now)
                copy == IF q.err = "error" THEN NoDB ELSE h
                ret == [ev EXCEPT
                           !.outcome = IF q.err = "nil" THEN "file" ELSE "ErrNotExist",
                           !.file = IF q.err = "nil" THEN Some(NewFile(q.row[1]))
                                                     ELSE None,
                           !.used = h, !.qerr = q.err]
            IN /\ db' = AfterOpen(db, copy)
               /\ last' = ret
               /\ hist' = AfterCall(hist, ret)
    /\ procs' = [procs EXCEPT ![p] = Idle]
    /\ UNCHANGED <<store, now, conns, files>>

\* Provision starts, `if s.db != nil`: with a handle held it returns nil
ProvisionTest(p) ==
    /\ Running
    /\ procs[p].pc = "idle"
    /\ IF db # NoDB
          THEN /\ last' = [Event("Provision") EXCEPT !.before = db]
               /\ UNCHANGED procs
          ELSE /\ last' = Event("step")
               /\ procs' = [procs EXCEPT ![p].pc = "sql.Open"]
    /\ UNCHANGED <<store, now, db, conns, files, hist>>

\* sql.Open in OpenDB, after the test found no handle
ProvisionOpen(p, res) ==
    /\ Running
    /\ procs[p].pc = "sql.Open"
    /\ Len(conns) < MaxConns
    /\ LET o == OpenDB(NoDB, conns, res) IN
       /\ conns' = o.conns
       /\ IF o.panic
             THEN /\ last' = [Event("Provision") EXCEPT !.outcome = "panic"]
                  /\ procs' = [procs EXCEPT ![p] = Idle]
             ELSE /\ last' = Event("step")
                  /\ procs' = [procs EXCEPT ![p].pc = "s.db = db",
                                            ![p].copy = o.db]
    /\ UNCHANGED <<store, now, db, files, hist>>

\* `s.db = db` through the pointer receiver, and the return
ProvisionAssign(p) ==
    /\ Running
    /\ procs[p].pc = "s.db = db"
    /\ db' = procs[p].copy
    /\ last' = [Event("Provision") EXCEPT !.opened = TRUE, !.before = db]
    /\ procs' = [procs EXCEPT ![p] = Idle]
    /\ UNCHANGED <<store, now, conns, files, hist>>

\* the tables of the concurrent runs: "a" is absent, there for good, or
\* there until some instant
ConcStores ==
    {[n \in Names |-> IF n = "a" THEN r ELSE None] :
        r \in Opt({x \in FileRows : x.content = Bytes(MaxLen) /\ x.mode = None})
               \cup {Some([content |-> Bytes(MaxLen), modified |-> None,
                           mode |-> None, expired_at |-> Some(t)]) :
                         t \in 1..MaxTime}}

\* Concurrent Opens and Provisions over a store in good health: sql.Open
\* yields working handles and no handle goes bad.
InitConc ==
    /\ store \in ConcStores
    /\ now = 0
    /\ db = NoDB
    /\ conns = <<>>
    /\ files = <<>>
    /\ last = Event("new")
    /\ procs = [p \in Procs |-> Idle]
    /\ hist = NoHistory

NextConc ==
    \/ \E p \in Procs, name \in Names : OpenBegin(p, name)
    \/ \E p \in Procs : OpenEnsure(p, "healthy")
    \/ \E p \in Procs : OpenQuery(p)
    \/ \E p \in Procs : ProvisionTest(p)
    \/ \E p \in Procs : ProvisionOpen(p, "healthy")
    \/ \E p \in Procs : ProvisionAssign(p)
    \/ Tick

SpecConc == InitConc /\ [][NextConc]_vars

\* Concurrent Opens on a provisioned instance whose handle goes bad and
\* recovers; a fresh sql.Open would yield a working handle.
InitRace ==
    /\ store \in ConcStores
    /\ now = 0
    /\ db = Some(1)
    /\ conns = <<"open">>
    /\ files = <<>>
    /\ last = Event("new")
    /\ procs = [p \in Procs |-> Idle]
    /\ hist = NewHistory

NextRace ==
    \/ \E p \in Procs, name \in Names : OpenBegin(p, name)
    \/ \E p \in Procs : OpenEnsure(p, "healthy")
    \/ \E p \in Procs : OpenQuery(p)
    \/ HandleFails
    \/ HandleRecovers
    \/ Tick

SpecRace == InitRace /\ [][NextRace]_vars

----------------------------------------------------------------------------
(* Properties of Open, Provision and the connection.                       *)

\* the row Open(name) is to serve at time t, if the table has one
Servable(tbl, name, t) ==
    /\ tbl[name] # None
    /\ tbl[name][1].expired_at = None \/ tbl[name][1].expired_at[1] > t
    /\ \A c \in {tbl[name][1].modified, tbl[name][1].mode} :
           c = None \/ "int" \in DOMAIN c[1]

\* the last call was an Open whose query ran on a handle that answers
\* queries: the held one, or the one Open opened for itself
OpenedOnHealthy ==
    /\ last.op = "Open"
    /\ last.used # None
    /\ conns[last.used[1]] = "open"

\* C1: whatever the state of the connection and of the table, Open(name)
\* returns either a file and no error, or no file and fs.ErrNotExist; it
\* returns no other error and does not panic.
C1_OpenFileOrNotExist ==
    last.op = "Open" =>
        \/ last.outcome = "file" /\ last.file # None
        \/ last.outcome = "ErrNotExist" /\ last.file = None

\* C2: when the row named name has an expired_at that is present and at most
\* the current time, Open(name) returns fs.ErrNotExist, and the row is still
\* in the table.
C2_ExpiredIsNotExist ==
    \A n \in Names :
        (/\ last.op = "Open" /\ last.name = n
         /\ store[n] # None
         /\ store[n][1].expired_at # None
         /\ store[n][1].expired_at[1] <= now)
        => last.outcome = "ErrNotExist"

\* C3: when the row named name is visible (expired_at absent, or later than
\* the current time) and the connection is healthy, Open(name) returns a file
\* whose content and metadata are those of the stored row.
C3_VisibleRowServed ==
    \A n \in Names :
        (OpenedOnHealthy /\ last.name = n /\ Servable(store, n, now))
        => /\ last.outcome = "file"
           /\ last.file # None
           /\ LET f == last.file[1]
                  r == store[n][1]
              IN /\ f.reader = Some([buf |-> r.content, off |-> 0])
                 /\ f.info.size = Len(r.content)
                 /\ r.modified # None =>
                        f.info.modTime = [zero |-> FALSE, unix |-> r.modified[1].int]
                 /\ r.modified = None => f.info.modTime = ZeroTime
                 /\ r.mode # None =>
                        f.info.mode = [dir |-> FALSE, low |-> r.mode[1].int]
                 /\ r.mode = None => f.info.mode = [dir |-> FALSE, low |-> 0]

C3_Witness ==
    /\ OpenedOnHealthy
    /\ last.outcome = "file"
    /\ store[last.name] # None
    /\ store[last.name][1].expired_at = Some(MaxTime)
    /\ now < MaxTime
    /\ store[last.name][1].content = Bytes(MaxLen)
    /\ store[last.name][1].modified # None

\* C4: after an Open whose query failed with an error other than
\* sql.ErrNoRows, the instance holds no handle, so that the next Open opens a
\* fresh one.
C4_FailureInvalidates ==
    (last.op = "Open" /\ last.qerr = "error") => db = NoDB

\* C5: an Open whose lookup finds no visible row of the name returns
\* fs.ErrNotExist and leaves the held handle as it was; an Open of another
\* name that follows it and succeeds runs on the same handle, and no handle
\* is opened for it.
C5_NoRowKeepsHandle ==
    /\ [][(last'.op = "Open" /\ last'.qerr = "ErrNoRows")
          => (last'.outcome = "ErrNotExist" /\ db' = db)]_vars
    /\ [][(/\ last.op = "Open" /\ last.qerr = "ErrNoRows"
           /\ last'.op = "Open" /\ last'.name # last.name
           /\ last'.outcome = "file")
          => (last'.used = last.used /\ ~last'.opened)]_vars

\* C6: Open keeps no result from one call to the next: on a healthy
\* connection Open(name) returns a file exactly when the table, as it is at
\* the call, has a visible row named name at the time of the call.
C6_OutcomeFollowsStore ==
    OpenedOnHealthy =>
        (last.outcome = "file") = Servable(store, last.name, now)

\* a well-formed row that has just reached its expired_at, refused by an
\* Open on a healthy handle
C6_Witness ==
    /\ OpenedOnHealthy
    /\ last.outcome = "ErrNotExist"
    /\ store[last.name] # None
    /\ store[last.name][1].expired_at = Some(now)
    /\ ScanOK(store[last.name][1])

\* C8: for a row that Open serves, ModTime() is the stored modified instant
\* when the column is present and the zero instant when it is NULL, and
\* Mode() is the stored mode when present and zero when NULL, each column
\* on its own.
C8_OptionalMetadata ==
    (last.op = "Open" /\ last.outcome = "file") =>
        LET r == store[last.name][1]
            i == last.file[1].info
        IN /\ (r.modified = None) = (i.modTime = ZeroTime)
           /\ r.modified # None =>
                  (~i.modTime.zero /\ i.modTime.unix = r.modified[1].int)
           /\ (r.mode = None) => (i.mode.low = 0 /\ ~i.mode.dir)
           /\ r.mode # None =>
                  (i.mode.low = r.mode[1].int /\ ~i.mode.dir)

C8_Witness ==
    /\ last.op = "Open" /\ last.outcome = "file"
    /\ store[last.name][1].modified = None
    /\ store[last.name][1].mode # None

\* C10: Provision returns nil and does not panic, whether or not sql.Open
\* succeeds; after a failed sql.Open the instance holds no handle and can
\* still be used.
C10_ProvisionReturnsNil ==
    last.op = "Provision" =>
        /\ last.outcome = "nil"
        /\ ~last.opened => db = last.before

\* C11: when sql.Open fails, the call that tried it (Provision or Open)
\* returns normally with no handle held, and an Open that finds the open
\* failing returns fs.ErrNotExist without having run a query.
C11_FailedOpenIsNotExist ==
    (last.op \in {"Open", "Provision"} /\ last.before = NoDB /\ ~last.opened) =>
        /\ db = NoDB
        /\ last.op = "Provision" => last.outcome = "nil"
        /\ last.op = "Open" => (last.outcome = "ErrNotExist" /\ last.qerr = "none")

\* C12: once Cleanup has returned the instance holds no handle, and no Open
\* runs its query on a handle that has been closed; Cleanup returns nil when
\* no handle is held.
C12_CleanupReleases ==
    /\ last.op = "Cleanup" => db = NoDB
    /\ (last.op = "Cleanup" /\ last.before = NoDB) => last.outcome = "nil"
    /\ (last.op = "Open" /\ last.used # None) => conns[last.used[1]] # "closed"

\* C13: in a sequence of Provision, Open and Cleanup calls made one after the
\* other, the handles sql.Open has returned are at most one more than the
\* invalidations and Cleanups so far.
C13_OpenOncePerGeneration ==
    hist # NoHistory => Len(conns) <= 1 + hist[1].resets

\* C14: once an Open has returned after its query failed on the held handle,
\* and the handle has not gone bad anew since, every Open that starts
\* afterwards on a name the table can serve returns a file.
C14_BoundedDamage ==
    (last.op = "Open" /\ last.after /\ Servable(store, last.name, now)) =>
        last.outcome = "file"

\* C15: with calls of Open and Provision in progress at the same time on a
\* store in good health, an Open returns a file with the content of the row
\* when its query finds the row servable and fs.ErrNotExist when it does not,
\* and the handle the instance holds is absent or open.
C15_ConcurrentOpens ==
    /\ last.op = "Open" =>
           IF Servable(store, last.name, now)
               THEN /\ last.outcome = "file"
                    /\ last.file # None
                    /\ last.file[1].reader =
                           Some([buf |-> store[last.name][1].content, off |-> 0])
               ELSE last.outcome = "ErrNotExist" /\ last.file = None
    /\ db = NoDB \/ conns[db[1]] = "open"

\* an Open returns a file while another call is in progress and a second,
\* redundant handle has been opened
C15_Witness ==
    /\ last.op = "Open" /\ last.outcome = "file"
    /\ Len(conns) > 1
    /\ \E q \in Procs : procs[q].pc # "idle"

\* C18: the info of the file a successful Open(name) returns has name as its
\* name, so that Name() is the final element of the path that was opened.
C18_InfoNamesPath ==
    (last.op = "Open" /\ last.outcome = "file") =>
        /\ last.file[1].info.name = last.name
        /\ PathBase(last.file[1].info.name) = PathBase(last.name)

\* C19: every handle sql.Open has returned is the one the instance holds or
\* has been closed.
C19_NoHandleLeak ==
    \A h \in 1..Len(conns) : db = Some(h) \/ conns[h] = "closed"

----------------------------------------------------------------------------
(* Properties of the files.                                                *)

\* the bytes of a file's buffer that no Read has delivered yet
Unread(f) ==
    IF f.reader = None THEN <<>>
    ELSE SubSeq(f.reader[1].buf, f.reader[1].off + 1, Len(f.reader[1].buf))

\* C7: Read drains the content forward only: the bytes the Reads of a file
\* have delivered, followed by the bytes still unread, are the content of the
\* row it was opened on; a Read with a buffer of at least one byte delivers
\* at least one byte while any is unread, and once none is it returns 0 and
\* io.EOF, every time.
C7_ReadDrainsContent ==
    /\ \A i \in 1..Len(files) :
           files[i].obj.reader # None =>
               files[i].got \o Unread(files[i].obj) = files[i].src
    /\ (last.op = "Read" /\ last.size >= 1 /\ last.pre[1].reader # None) =>
           IF Unread(last.pre[1]) = <<>>
               THEN /\ last.n = 0 /\ last.outcome = "EOF"
                    /\ files[last.idx].got = files[last.idx].src
               ELSE /\ last.n >= 1 /\ last.outcome = "nil"
                    /\ last.n = Len(Unread(last.pre[1])) - Len(Unread(files[last.idx].obj))

\* a content of MaxLen bytes read to its end in more than one Read, and a
\* further Read answered with io.EOF
C7_Witness ==
    /\ last.op = "Read" /\ last.size = 1 /\ last.outcome = "EOF"
    /\ files[last.idx].src = Bytes(MaxLen)
    /\ files[last.idx].got = Bytes(MaxLen)
    /\ last.pre[1].reader = Some([buf |-> <<>>, off |-> 0])

\* C9: Close returns nil and does not panic however often it is called, and
\* a Close of a closed file leaves the file as the first Close left it.
C9_CloseIdempotent ==
    last.op = "Close" =>
        /\ last.outcome = "nil"
        /\ files[last.idx].obj.reader = None
        /\ last.pre[1].reader = None => files[last.idx].obj = last.pre[1]

\* a second Close of a file
C9_Witness ==
    /\ last.op = "Close"
    /\ last.pre[1].reader = None
    /\ files[last.idx].src = Bytes(MaxLen)

\* C16: a Read or a Close of one file leaves the unread bytes and the info
\* of every other file as they were, files opened on the same path included.
C16_HandlesIndependent ==
    [][\A j \in 1..Len(files) :
           (last'.op \in {"Read", "Close"} /\ last'.idx # j) =>
               /\ Unread(files'[j].obj) = Unread(files[j].obj)
               /\ files'[j].obj.info = files[j].obj.info]_vars

\* two files opened on the same path: one read to its end and closed, the
\* other with all its content unread and its info as Open made it
C16_Witness ==
    \E i, j \in 1..Len(files) :
        /\ i # j /\ files[i].path = files[j].path
        /\ last.op = "Close" /\ last.idx = i
        /\ files[i].src = Bytes(MaxLen) /\ files[i].got = files[i].src
        /\ files[j].obj.reader # None
        /\ Unread(files[j].obj) = files[j].src
        /\ files[j].obj.info = files[j].info0

\* C17: while a file is not closed its info is the one Open built, whose size
\* is the length of the content, and Stat returns that info with a nil
\* error, whatever has been read.
C17_StatFrozen ==
    /\ \A i \in 1..Len(files) :
           files[i].obj.reader # None =>
               /\ files[i].obj.info = files[i].info0
               /\ files[i].obj.info.size = Len(files[i].src)
    /\ (last.op = "Stat" /\ last.pre[1].reader # None) =>
           /\ last.outcome = "nil"
           /\ last.info = Some(files[last.idx].info0)
           /\ last.info[1].size = Len(files[last.idx].src)

\* Stat on a file whose content of MaxLen bytes has all been read
C17_Witness ==
    /\ last.op = "Stat" /\ last.pre[1].reader # None
    /\ files[last.idx].src = Bytes(MaxLen)
    /\ files[last.idx].got = files[last.idx].src
    /\ Unread(files[last.idx].obj) = <<>>
    /\ last.info[1].size = MaxLen

====
